---- MODULE Spec2Model ----
(***************************************************************************)
(* Model of the kafka batch writer of pgstream                             *)
(* (pkg/wal/processor/kafka/wal_kafka_batch_writer.go).                    *)
(*                                                                         *)
(* Three threads of control are modelled:                                  *)
(*   - the listener goroutine, which calls ProcessWALEvent once per event; *)
(*   - the Send run loop (the select loop of BatchWriter.Send);            *)
(*   - the sender goroutine that Send starts (range over batchChan).       *)
(* A wal event is identified by its index in `events`; a kafka message is  *)
(* identified by the index of the event it was built from.                 *)
(***************************************************************************)
EXTENDS Integers, Sequences, FiniteSets, TLC

\* ------------------------------------------------------------------ bounds
\* config.BatchBytes (w.maxBatchBytes)
MaxBatchBytes == 4
\* config.BatchSize (w.maxBatchSize)
MaxBatchSize == 2
\* number of wal events the listener delivers in one run
MaxEvents == 3

\* config.MaxQueueBytes: NewBatchWriter requires it to be >= BatchBytes
MaxQueueBytes == MaxBatchBytes + 1
\* serialised payload sizes the listener delivers: the smallest payload and
\* the payloads just below, at and just above maxBatchBytes (the last one is a
\* record that is too large)
DataSizes == {1, MaxBatchBytes - 1, MaxBatchBytes, MaxBatchBytes + 1}
\* the empty commit position (CommitPosition.IsEmpty)
EmptyPos == 0
\* the checkpointer callback is optional; the model runs with one configured
checkpointerSet == TRUE

VARIABLES
    events,        \* wal events handed to ProcessWALEvent so far: [size, pos]; size 0 = Data nil
    cancelled,     \* ctx.Done() is closed
    closed,        \* Close has closed msgChan
    procPC,        \* position of the ProcessWALEvent call: idle | acquire | publish
    procMsg,       \* the kafkaMsg (event index) of the call in progress, 0 when idle
    procRet,       \* result of the last finished ProcessWALEvent call: none | ok | err
    dropped,       \* indexes of the events dropped as too large
    published,     \* history: the messages sent on msgChan, in the order the run loop got them
    semaHeld,      \* queueBytesSema: bytes currently held
    acquired,      \* history: total bytes acquired from queueBytesSema
    released,      \* history: total bytes released to queueBytesSema
    sendPC,        \* position of the Send run loop: select | handoffTick | handoffMsg | returned
    sendRet,       \* what Send returned: none | ctx | sendErr
    msgBatch,      \* the pending batch of the run loop
    outBatch,      \* the drained batch the run loop is sending on batchChan
    heldMsg,       \* the message received from msgChan, to be added after the hand-off
    batchChanClosed, \* close(batchChan) ran (deferred in Send)
    senderPC,      \* position of the sender goroutine: recv | write | checkpoint | release | done
    senderBatch,   \* the batch the sender goroutine is working on
    senderErr,     \* sendBatch returned an error for senderBatch
    ckptErr,       \* the checkpointer call for senderBatch returned an error
    sendErrChan,   \* buffered (1) error channel, as a sequence
    busWrites,     \* history: the successful WriteMessages calls, each a sequence of messages
    handed,        \* history: the messages of the batches received by the sender, in order
    checkpoints    \* history: the checkpointer calls: [pos, lastId]

\* the state of the batch writer
writerVars == <<events, cancelled, closed, procPC, procMsg, procRet, dropped, published, semaHeld,
                acquired, released, sendPC, sendRet, msgBatch, outBatch, heldMsg,
                batchChanClosed, senderPC, senderBatch, senderErr, ckptErr, sendErrChan,
                busWrites, handed, checkpoints>>

\* ------------------------------------------------- search store retrier: state
\* StoreRetrier.SendDocuments (pkg/wal/processor/search), one call
VARIABLES
    rtPC,          \* idle | call (about to call the inner store) | done
    rtDocs,        \* the documents of the next store call
    rtCalls,       \* number of calls made to the inner store
    rtSent,        \* history: the documents of each store call
    rtAnswers,     \* history: the answer of each store call, [err, failed]
    rtDataLoss,    \* the DataLoss errors accumulated over the rounds
    rtRetriable,   \* the Retriable errors of the last answered round
    rtRetErr,      \* the error SendDocuments returned: none | transport
    rtResult       \* the failed documents SendDocuments returned, Nil for a nil list

retrierVars == <<rtPC, rtDocs, rtCalls, rtSent, rtAnswers, rtDataLoss, rtRetriable, rtRetErr, rtResult>>

\* ------------------------------------------- ProcessWALEvent in detail: state
\* One call of ProcessWALEvent with the content of the event spelled out, on the
\* semaphore and the context of the batch writer
VARIABLES
    keyPC,         \* idle | acquire (blocked in Acquire) | publish (blocked on msgChan)
    keyEvent,      \* the event of the last call
    keyMsg,        \* the message the call built
    keyRet,        \* what the last call returned: none | nil | marshal | understanding | ctx
    keyUnreleased  \* bytes of the messages the run loop received and the sender
                   \* has not released yet

keyVars == <<keyPC, keyEvent, keyMsg, keyRet, keyUnreleased>>

\* ------------------------------------------------ replication listener: state
\* Listener.Listen (pkg/wal/listener/postgres), on the context of the writer
VARIABLES
    lsPC,          \* receive (at the top of the loop) | done (Listen returned)
    lsErr,         \* what Listen returned: none | canceled | receive | deserialise | process
    lsReceived,    \* history: what each ReceiveMessage call returned
    lsProcessed    \* history: the processor calls, [call, event, ok]

listenerVars == <<lsPC, lsErr, lsReceived, lsProcessed>>

\* --------------------------------------------------------- bus listener: state
\* Reader.Listen (pkg/wal/listener/kafka), on the context of the writer
VARIABLES
    brPC,          \* fetch (at the top of the loop) | done (Listen returned) |
                   \* panicked (a panic left Listen)
    brErr,         \* what Listen returned: none | ctx | fetch | unmarshal | canceled
    brFetched,     \* history: what each FetchMessage call returned
    brProcessed,   \* history: the processRecord calls, [call, data, outcome]
    brDataLoss     \* history: the fetches logged with severity DATALOSS

busVars == <<brPC, brErr, brFetched, brProcessed, brDataLoss>>

\* ------------------------------------------------------ NewBatchWriter: state
VARIABLES
    cfgPC,         \* new (no call yet) | built | failed
    cfgConfig,     \* the kafka.WriterConfig of the last call
    cfgCapacity,   \* the capacity of the queue semaphore of the writer built
    cfgErr,        \* what the last call returned: none | queue | writer
    cfgProc,       \* the first ProcessWALEvent call on the built writer:
                   \* idle | dropped | acquire | publish
    cfgMsgSize     \* the size of the message of that call

configVars == <<cfgPC, cfgConfig, cfgCapacity, cfgErr, cfgProc, cfgMsgSize>>

\* everything but the batch writer, the retrier, the replication listener, the
\* bus listener and the constructor
notWriter == <<retrierVars, keyVars, listenerVars, busVars, configVars>>
notRetrier == <<writerVars, keyVars, listenerVars, busVars, configVars>>
notListener == <<writerVars, retrierVars, keyVars, busVars, configVars>>
notBus == <<writerVars, retrierVars, keyVars, listenerVars, configVars>>
notConfig == <<writerVars, retrierVars, keyVars, listenerVars, busVars>>

vars == <<writerVars, retrierVars, keyVars, listenerVars, busVars, configVars>>

procVars == <<procPC, procMsg, procRet, dropped>>
semaVars == <<semaHeld, acquired, released>>
loopVars == <<sendPC, sendRet, msgBatch, outBatch, heldMsg, batchChanClosed>>
senderVars == <<senderPC, senderBatch, senderErr, ckptErr, sendErrChan>>
histVars == <<published, busWrites, handed, checkpoints>>
\* what the detailed ProcessWALEvent leaves alone
notKey == <<events, procVars, acquired, released, loopVars, senderVars, histVars, retrierVars,
            listenerVars, busVars, configVars>>

\* ------------------------------------------------------------ pure helpers
\* msg.size(): the size of the kafka message value; a keep alive has no value
size(id) == events[id].size

\* msg.isKeepAlive(): a message without payload that carries a position
isKeepAlive(id) == events[id].size = 0 /\ events[id].pos # EmptyPos

\* the zero value &msgBatch{}; lastId is a history field: the message that
\* set lastPos
EmptyBatch == [msgs |-> <<>>, totalBytes |-> 0, lastPos |-> EmptyPos, lastId |-> 0]

\* msgBatch.add(msg): a message with a payload is appended and counted; the
\* batch position is the highest position of the messages added
add(b, id) ==
    [msgs |-> IF size(id) > 0 THEN Append(b.msgs, id) ELSE b.msgs,
     totalBytes |-> b.totalBytes + size(id),
     lastPos |-> IF events[id].pos >= b.lastPos THEN events[id].pos ELSE b.lastPos,
     lastId |-> IF events[id].pos >= b.lastPos THEN id ELSE b.lastId]

\* msgBatch.drain(): returns the pending batch and leaves an empty one behind
drain(b) == [out |-> b, rest |-> EmptyBatch]

\* mutant of tooLarge: the size check is missing
tooLarge_Never(sz) == FALSE

\* the test of ProcessWALEvent for a record larger than the accepted size
tooLarge(sz) == sz > MaxBatchBytes

\* mutant of mustDrain: the message count of the pending batch is not tested
mustDrain_NoCount(b, id) ==
    \/ b.totalBytes + size(id) >= MaxBatchBytes
    \/ isKeepAlive(id)

\* mutant of mustDrain: the pending batch is drained only when the message
\* would take it above maxBatchBytes
mustDrain_OnlyWhenExceeds(b, id) ==
    \/ b.totalBytes + size(id) > MaxBatchBytes
    \/ Len(b.msgs) = MaxBatchSize
    \/ isKeepAlive(id)

\* the test of the run loop before adding a message to the pending batch
mustDrain(b, id) ==
    \/ b.totalBytes + size(id) >= MaxBatchBytes
    \/ Len(b.msgs) = MaxBatchSize
    \/ isKeepAlive(id)

\* WeightedSemaphore.TryAcquire / Acquire admit n bytes when they fit
semaFits(n) == semaHeld + n <= MaxQueueBytes

LastPos == IF events = <<>> THEN 1 ELSE events[Len(events)].pos

\* a nil slice of failed documents, and a slice holding the errors
Nil == [isNil |-> TRUE, errs |-> <<>>]
failedDocs(errs) == [isNil |-> FALSE, errs |-> errs]

\* no SendDocuments call has been made
RetrierInit ==
    /\ rtPC = "idle"
    /\ rtDocs = <<>>
    /\ rtCalls = 0
    /\ rtSent = <<>>
    /\ rtAnswers = <<>>
    /\ rtDataLoss = <<>>
    /\ rtRetriable = <<>>
    /\ rtRetErr = "none"
    /\ rtResult = Nil

\* an event without data (a keep-alive), and the message before a call built one
NoData == [hasData |-> FALSE, schema |-> "", table |-> "", columns |-> <<>>,
           size |-> 0, serErr |-> FALSE]
NoMsg == [hasData |-> FALSE, key |-> "", size |-> 0]

\* no call of ProcessWALEvent has been made
KeyInit ==
    /\ keyPC = "idle"
    /\ keyEvent = NoData
    /\ keyMsg = NoMsg
    /\ keyRet = "none"
    /\ keyUnreleased = 0

\* Listen has been called and is at the top of its loop
ListenerInit ==
    /\ lsPC = "receive"
    /\ lsErr = "none"
    /\ lsReceived = <<>>
    /\ lsProcessed = <<>>

\* Listen of the bus reader has been called and is at the top of its loop
BusInit ==
    /\ brPC = "fetch"
    /\ brErr = "none"
    /\ brFetched = <<>>
    /\ brProcessed = <<>>
    /\ brDataLoss = {}

\* NewBatchWriter has not been called
ConfigInit ==
    /\ cfgPC = "new"
    /\ cfgConfig = [BatchBytes |-> 0, MaxQueueBytes |-> 0]
    /\ cfgCapacity = 0
    /\ cfgErr = "none"
    /\ cfgProc = "idle"
    /\ cfgMsgSize = 0

\* ------------------------------------------------------------------- Init
Init ==
    /\ RetrierInit
    /\ KeyInit
    /\ ListenerInit
    /\ BusInit
    /\ ConfigInit
    /\ events = <<>>
    /\ cancelled = FALSE
    /\ closed = FALSE
    /\ procPC = "idle"
    /\ procMsg = 0
    /\ procRet = "none"
    /\ dropped = {}
    /\ published = <<>>
    /\ semaHeld = 0
    /\ acquired = 0
    /\ released = 0
    /\ sendPC = "select"
    /\ sendRet = "none"
    /\ msgBatch = EmptyBatch
    /\ outBatch = EmptyBatch
    /\ heldMsg = 0
    /\ batchChanClosed = FALSE
    /\ senderPC = "recv"
    /\ senderBatch = EmptyBatch
    /\ senderErr = FALSE
    /\ ckptErr = FALSE
    /\ sendErrChan = <<>>
    /\ busWrites = <<>>
    /\ handed = <<>>
    /\ checkpoints = <<>>

\* --------------------------------------------------------- ProcessWALEvent
\* The listener calls ProcessWALEvent with the next event. Positions are
\* delivered in non-decreasing order. The call runs up to its first blocking
\* point: it returns (too large), blocks in Acquire, or blocks on msgChan.
ProcessWALEvent ==
    /\ procPC = "idle"
    /\ Len(events) < MaxEvents
    /\ \E sz \in {0} \cup DataSizes, p \in {LastPos, LastPos + 1} :
         LET id == Len(events) + 1 IN
         /\ events' = Append(events, [size |-> sz, pos |-> p])
         /\ IF tooLarge(sz)
               THEN /\ dropped' = dropped \cup {id}
                    /\ procRet' = "ok"
                    /\ UNCHANGED <<procPC, procMsg, semaVars>>
            ELSE IF semaFits(sz)
               THEN /\ semaHeld' = semaHeld + sz
                    /\ acquired' = acquired + sz
                    /\ procPC' = "publish"
                    /\ procMsg' = id
                    /\ procRet' = "none"
                    /\ UNCHANGED <<dropped, released>>
               ELSE /\ procPC' = "acquire"
                    /\ procMsg' = id
                    /\ procRet' = "none"
                    /\ UNCHANGED <<dropped, semaVars>>
    /\ UNCHANGED <<cancelled, closed, loopVars, senderVars, histVars>>
    /\ UNCHANGED notWriter

\* queueBytesSema.Acquire(ctx, msgSize) is granted
AcquireGranted ==
    /\ procPC = "acquire"
    /\ semaFits(size(procMsg))
    /\ semaHeld' = semaHeld + size(procMsg)
    /\ acquired' = acquired + size(procMsg)
    /\ procPC' = "publish"
    /\ UNCHANGED <<events, cancelled, closed, procMsg, procRet, dropped, released,
                   loopVars, senderVars, histVars>>
    /\ UNCHANGED notWriter

\* queueBytesSema.Acquire(ctx, msgSize) returns ctx.Err()
AcquireCancelled ==
    /\ procPC = "acquire"
    /\ cancelled
    /\ procPC' = "idle"
    /\ procMsg' = 0
    /\ procRet' = "err"
    /\ UNCHANGED <<events, cancelled, closed, dropped, semaVars, loopVars, senderVars, histVars>>
    /\ UNCHANGED notWriter

\* the root context is cancelled
Cancel ==
    /\ ~cancelled
    /\ cancelled' = TRUE
    /\ UNCHANGED <<events, closed, procVars, semaVars, loopVars, senderVars, histVars>>
    /\ UNCHANGED notWriter

\* ------------------------------------------------------------ Send run loop
\* mutant of SendCtxDone: Send returns without closing batchChan
SendCtxDone_LeavesOpen ==
    /\ sendPC = "select"
    /\ cancelled
    /\ sendPC' = "returned"
    /\ sendRet' = "ctx"
    /\ UNCHANGED <<events, cancelled, closed, procVars, semaVars, msgBatch, outBatch, heldMsg,
                   batchChanClosed, senderVars, histVars>>
    /\ UNCHANGED notWriter

\* case <-ctx.Done(): return ctx.Err()
SendCtxDone ==
    /\ sendPC = "select"
    /\ cancelled
    /\ sendPC' = "returned"
    /\ sendRet' = "ctx"
    /\ batchChanClosed' = TRUE
    /\ UNCHANGED <<events, cancelled, closed, procVars, semaVars, msgBatch, outBatch, heldMsg,
                   senderVars, histVars>>
    /\ UNCHANGED notWriter

\* case sendErr := <-sendErrChan: return sendErr
SendErrReceived ==
    /\ sendPC = "select"
    /\ sendErrChan # <<>>
    /\ sendErrChan' = Tail(sendErrChan)
    /\ sendPC' = "returned"
    /\ sendRet' = "sendErr"
    /\ batchChanClosed' = TRUE
    /\ UNCHANGED <<events, cancelled, closed, procVars, semaVars, msgBatch, outBatch, heldMsg,
                   senderPC, senderBatch, senderErr, ckptErr, histVars>>
    /\ UNCHANGED notWriter

\* mutant of SendTick: the pending batch is reset before it is copied, so the
\* tick hands over an empty batch
SendTick_DrainLoses ==
    /\ sendPC = "select"
    /\ outBatch' = EmptyBatch
    /\ msgBatch' = EmptyBatch
    /\ sendPC' = "handoffTick"
    /\ UNCHANGED <<events, cancelled, closed, procVars, semaVars, sendRet, heldMsg, batchChanClosed,
                   senderVars, histVars>>
    /\ UNCHANGED notWriter

\* mutant of SendTick: the drained messages also stay in the pending batch
SendTick_DrainKeeps ==
    /\ sendPC = "select"
    /\ outBatch' = drain(msgBatch).out
    /\ msgBatch' = msgBatch
    /\ sendPC' = "handoffTick"
    /\ UNCHANGED <<events, cancelled, closed, procVars, semaVars, sendRet, heldMsg, batchChanClosed,
                   senderVars, histVars>>
    /\ UNCHANGED notWriter

\* case <-ticker.C: the pending batch is drained; the run loop then blocks
\* sending it on batchChan
SendTick ==
    /\ sendPC = "select"
    /\ outBatch' = drain(msgBatch).out
    /\ msgBatch' = drain(msgBatch).rest
    /\ sendPC' = "handoffTick"
    /\ UNCHANGED <<events, cancelled, closed, procVars, semaVars, sendRet, heldMsg, batchChanClosed,
                   senderVars, histVars>>
    /\ UNCHANGED notWriter

\* mutant of SendMsgReceived: when a drain is due the new message is sent at
\* once as a batch of its own and the pending batch stays behind
SendMsgReceived_NewFirst ==
    /\ sendPC = "select"
    /\ procPC = "publish"
    /\ procPC' = "idle"
    /\ procMsg' = 0
    /\ procRet' = "ok"
    /\ IF mustDrain(msgBatch, procMsg)
          THEN /\ outBatch' = add(EmptyBatch, procMsg)
               /\ sendPC' = "handoffTick"
               /\ UNCHANGED <<msgBatch, heldMsg>>
          ELSE /\ msgBatch' = add(msgBatch, procMsg)
               /\ UNCHANGED <<outBatch, heldMsg, sendPC>>
    /\ published' = Append(published, procMsg)
    /\ UNCHANGED <<events, cancelled, closed, dropped, semaVars, sendRet, batchChanClosed,
                   senderVars, busWrites, handed, checkpoints>>
    /\ UNCHANGED notWriter

\* case msg := <-w.msgChan: the rendezvous with the blocked ProcessWALEvent,
\* which returns nil. The message is added at once, or after the pending
\* batch has been handed to the sender.
SendMsgReceived ==
    /\ sendPC = "select"
    /\ procPC = "publish"
    /\ procPC' = "idle"
    /\ procMsg' = 0
    /\ procRet' = "ok"
    /\ IF mustDrain(msgBatch, procMsg)
          THEN /\ outBatch' = drain(msgBatch).out
               /\ msgBatch' = drain(msgBatch).rest
               /\ heldMsg' = procMsg
               /\ sendPC' = "handoffMsg"
          ELSE /\ msgBatch' = add(msgBatch, procMsg)
               /\ UNCHANGED <<outBatch, heldMsg, sendPC>>
    /\ published' = Append(published, procMsg)
    /\ UNCHANGED <<events, cancelled, closed, dropped, semaVars, sendRet, batchChanClosed,
                   senderVars, busWrites, handed, checkpoints>>
    /\ UNCHANGED notWriter

\* mutant of BatchHandOff: the message that caused the drain is not added to
\* the new pending batch
BatchHandOff_DropHeld ==
    /\ sendPC \in {"handoffTick", "handoffMsg"}
    /\ senderPC = "recv"
    /\ senderBatch' = outBatch
    /\ senderPC' = "write"
    /\ senderErr' = FALSE
    /\ outBatch' = EmptyBatch
    /\ handed' = handed \o outBatch.msgs
    /\ heldMsg' = 0
    /\ sendPC' = "select"
    /\ UNCHANGED <<events, cancelled, closed, procVars, semaVars, sendRet, msgBatch, batchChanClosed,
                   ckptErr, sendErrChan, published, busWrites, checkpoints>>
    /\ UNCHANGED notWriter

\* mutant of BatchHandOff: the sender takes the next batch before it has
\* released the bytes of the one it holds
BatchHandOff_WhileBusy ==
    /\ sendPC \in {"handoffTick", "handoffMsg"}
    /\ senderPC \in {"recv", "release"}
    /\ senderBatch' = outBatch
    /\ senderPC' = "write"
    /\ senderErr' = FALSE
    /\ outBatch' = EmptyBatch
    /\ handed' = handed \o outBatch.msgs
    /\ msgBatch' = IF sendPC = "handoffMsg" THEN add(msgBatch, heldMsg) ELSE msgBatch
    /\ heldMsg' = 0
    /\ sendPC' = "select"
    /\ UNCHANGED <<events, cancelled, closed, procVars, semaVars, sendRet, batchChanClosed,
                   ckptErr, sendErrChan, published, busWrites, checkpoints>>
    /\ UNCHANGED notWriter

\* batchChan <- batch: the rendezvous with the sender goroutine waiting in
\* `range batchChan`; after it the run loop adds the held message, if any
BatchHandOff ==
    /\ sendPC \in {"handoffTick", "handoffMsg"}
    /\ senderPC = "recv"
    /\ senderBatch' = outBatch
    /\ senderPC' = "write"
    /\ senderErr' = FALSE
    /\ outBatch' = EmptyBatch
    /\ handed' = handed \o outBatch.msgs
    /\ msgBatch' = IF sendPC = "handoffMsg" THEN add(msgBatch, heldMsg) ELSE msgBatch
    /\ heldMsg' = 0
    /\ sendPC' = "select"
    /\ UNCHANGED <<events, cancelled, closed, procVars, semaVars, sendRet, batchChanClosed,
                   ckptErr, sendErrChan, published, busWrites, checkpoints>>
    /\ UNCHANGED notWriter

\* ---------------------------------------------------------- sender goroutine
\* mutant of SenderWrite: after a failed write sendBatch does not return but
\* goes on to the checkpoint
SenderWrite_CheckpointOnFailure ==
    /\ senderPC = "write"
    /\ IF Len(senderBatch.msgs) > 0
          THEN \/ /\ busWrites' = Append(busWrites, senderBatch.msgs)
                  /\ senderPC' = "checkpoint"
                  /\ UNCHANGED senderErr
               \/ /\ senderErr' = TRUE
                  /\ senderPC' = "checkpoint"
                  /\ UNCHANGED busWrites
          ELSE /\ senderPC' = "checkpoint"
               /\ UNCHANGED <<senderErr, busWrites>>
    /\ UNCHANGED <<events, cancelled, closed, procVars, semaVars, loopVars, senderBatch,
                   ckptErr, sendErrChan, published, handed, checkpoints>>
    /\ UNCHANGED notWriter

\* mutant of SenderWrite: WriteMessages is called for a batch without messages
\* too
SenderWrite_EmptyToo ==
    /\ senderPC = "write"
    /\ \/ /\ busWrites' = Append(busWrites, senderBatch.msgs)
          /\ senderPC' = "checkpoint"
          /\ UNCHANGED senderErr
       \/ /\ senderErr' = TRUE
          /\ senderPC' = "release"
          /\ UNCHANGED busWrites
    /\ UNCHANGED <<events, cancelled, closed, procVars, semaVars, loopVars, senderBatch,
                   ckptErr, sendErrChan, published, handed, checkpoints>>
    /\ UNCHANGED notWriter

\* sendBatch, first half: WriteMessages when the batch has messages; the write
\* succeeds or fails
SenderWrite ==
    /\ senderPC = "write"
    /\ IF Len(senderBatch.msgs) > 0
          THEN \/ /\ busWrites' = Append(busWrites, senderBatch.msgs)
                  /\ senderPC' = "checkpoint"
                  /\ UNCHANGED senderErr
               \/ /\ senderErr' = TRUE
                  /\ senderPC' = "release"
                  /\ UNCHANGED busWrites
          ELSE /\ senderPC' = "checkpoint"
               /\ UNCHANGED <<senderErr, busWrites>>
    /\ UNCHANGED <<events, cancelled, closed, procVars, semaVars, loopVars, senderBatch,
                   ckptErr, sendErrChan, published, handed, checkpoints>>
    /\ UNCHANGED notWriter

\* mutant of SenderCheckpoint: the checkpointer is called only for a batch
\* that has messages
SenderCheckpoint_OnlyWithMsgs ==
    /\ senderPC = "checkpoint"
    /\ IF checkpointerSet /\ senderBatch.lastPos # EmptyPos /\ Len(senderBatch.msgs) > 0
          THEN /\ checkpoints' = Append(checkpoints,
                                        [pos |-> senderBatch.lastPos, lastId |-> senderBatch.lastId])
               /\ ckptErr' \in BOOLEAN
          ELSE UNCHANGED <<checkpoints, ckptErr>>
    /\ senderPC' = "release"
    /\ UNCHANGED <<events, cancelled, closed, procVars, semaVars, loopVars, senderBatch, senderErr,
                   sendErrChan, published, busWrites, handed>>
    /\ UNCHANGED notWriter

\* mutant of SenderCheckpoint: sendBatch returns the error of the checkpointer
SenderCheckpoint_ErrReturned ==
    /\ senderPC = "checkpoint"
    /\ IF checkpointerSet /\ senderBatch.lastPos # EmptyPos
          THEN /\ checkpoints' = Append(checkpoints,
                                        [pos |-> senderBatch.lastPos, lastId |-> senderBatch.lastId])
               /\ ckptErr' \in BOOLEAN
               /\ senderErr' = ckptErr'
          ELSE UNCHANGED <<checkpoints, ckptErr, senderErr>>
    /\ senderPC' = "release"
    /\ UNCHANGED <<events, cancelled, closed, procVars, semaVars, loopVars, senderBatch,
                   sendErrChan, published, busWrites, handed>>
    /\ UNCHANGED notWriter

\* sendBatch, second half: the checkpointer is called with the batch position
\* when one is configured and the position is not empty; the call succeeds or
\* fails, and its error is only logged: sendBatch returns nil either way
SenderCheckpoint ==
    /\ senderPC = "checkpoint"
    /\ IF checkpointerSet /\ senderBatch.lastPos # EmptyPos
          THEN /\ checkpoints' = Append(checkpoints,
                                        [pos |-> senderBatch.lastPos, lastId |-> senderBatch.lastId])
               /\ ckptErr' \in BOOLEAN
          ELSE UNCHANGED <<checkpoints, ckptErr>>
    /\ senderPC' = "release"
    /\ UNCHANGED <<events, cancelled, closed, procVars, semaVars, loopVars, senderBatch, senderErr,
                   sendErrChan, published, busWrites, handed>>
    /\ UNCHANGED notWriter

\* mutant of SenderRelease: the bytes of a batch whose write failed are not
\* released
SenderRelease_OnlyOnSuccess ==
    /\ senderPC = "release"
    /\ IF senderErr
          THEN /\ sendErrChan' = Append(sendErrChan, "writeErr")
               /\ senderPC' = "done"
               /\ UNCHANGED <<semaHeld, released>>
          ELSE /\ semaHeld' = semaHeld - senderBatch.totalBytes
               /\ released' = released + senderBatch.totalBytes
               /\ senderPC' = "recv"
               /\ UNCHANGED sendErrChan
    /\ senderBatch' = EmptyBatch
    /\ ckptErr' = FALSE
    /\ UNCHANGED <<events, cancelled, closed, procVars, acquired, loopVars, senderErr, histVars>>
    /\ UNCHANGED notWriter

\* mutant of SenderRelease: everything held from the semaphore is released,
\* not the bytes of the batch
SenderRelease_AllHeld ==
    /\ senderPC = "release"
    /\ semaHeld' = 0
    /\ released' = released + semaHeld
    /\ IF senderErr
          THEN /\ sendErrChan' = Append(sendErrChan, "writeErr")
               /\ senderPC' = "done"
          ELSE /\ senderPC' = "recv"
               /\ UNCHANGED sendErrChan
    /\ senderBatch' = EmptyBatch
    /\ ckptErr' = FALSE
    /\ UNCHANGED <<events, cancelled, closed, procVars, acquired, loopVars, senderErr, histVars>>
    /\ UNCHANGED notWriter

\* queueBytesSema.Release(batch.totalBytes); then the error, if any, goes to
\* sendErrChan and the goroutine returns, else it waits for the next batch
SenderRelease ==
    /\ senderPC = "release"
    /\ semaHeld' = semaHeld - senderBatch.totalBytes
    /\ released' = released + senderBatch.totalBytes
    /\ IF senderErr
          THEN /\ sendErrChan' = Append(sendErrChan, "writeErr")
               /\ senderPC' = "done"
          ELSE /\ senderPC' = "recv"
               /\ UNCHANGED sendErrChan
    /\ senderBatch' = EmptyBatch
    /\ ckptErr' = FALSE
    /\ UNCHANGED <<events, cancelled, closed, procVars, acquired, loopVars, senderErr, histVars>>
    /\ UNCHANGED notWriter

\* `range batchChan` ends once batchChan is closed
SenderExit ==
    /\ senderPC = "recv"
    /\ batchChanClosed
    /\ senderPC' = "done"
    /\ UNCHANGED <<events, cancelled, closed, procVars, semaVars, loopVars, senderBatch, senderErr,
                   ckptErr, sendErrChan, histVars>>
    /\ UNCHANGED notWriter

Next ==
    \/ ProcessWALEvent
    \/ AcquireGranted
    \/ AcquireCancelled
    \/ Cancel
    \/ SendCtxDone
    \/ SendErrReceived
    \/ SendTick
    \/ SendMsgReceived
    \/ BatchHandOff
    \/ SenderWrite
    \/ SenderCheckpoint
    \/ SenderRelease
    \/ SenderExit

Spec == Init /\ [][Next]_vars

TypeOK ==
    /\ procPC \in {"idle", "acquire", "publish"}
    /\ sendPC \in {"select", "handoffTick", "handoffMsg", "returned"}
    /\ senderPC \in {"recv", "write", "checkpoint", "release", "done"}
    /\ Len(sendErrChan) <= 1
    /\ semaHeld \in 0..MaxQueueBytes

\* ------------------------------------------------------- history helpers
RECURSIVE Flat(_)
\* the records on the bus: the successful writes, concatenated
Flat(ws) == IF ws = <<>> THEN <<>> ELSE Head(ws) \o Flat(Tail(ws))

RECURSIVE DataOf(_)
\* the messages of a sequence that carry a payload
DataOf(ids) ==
    IF ids = <<>> THEN <<>>
    ELSE IF size(Head(ids)) > 0 THEN <<Head(ids)>> \o DataOf(Tail(ids))
    ELSE DataOf(Tail(ids))

IsPrefix(a, b) == Len(a) <= Len(b) /\ \A i \in 1..Len(a) : a[i] = b[i]
Range(f) == {f[i] : i \in DOMAIN f}
Written == Range(Flat(busWrites))
\* the batches that have left the run loop: on their way to, or with, the sender
HandedOver == {outBatch, senderBatch}

\* ------------------------------------------------------------------ claims

\* C1: the checkpointer is called with a position only after the bus write of
\* the batch carrying it, and of every earlier batch, has succeeded: every
\* checkpointed position is the position of a message the run loop received,
\* and every payload received up to that message is on the bus.
C1_CheckpointAfterWrite ==
    \A i \in 1..Len(checkpoints) :
        LET c == checkpoints[i] IN
        /\ c.lastId \in Range(published)
        /\ events[c.lastId].pos = c.pos
        /\ \A id \in Range(published) : (id <= c.lastId /\ size(id) > 0) => id \in Written

\* C1 witness: a checkpoint was issued for a batch of written payloads after
\* an earlier batch had been written too
C1_Witness ==
    /\ Len(busWrites) >= 2
    /\ Len(checkpoints) >= 2
    /\ size(checkpoints[Len(checkpoints)].lastId) > 0

C4_OrderPreserved == IsPrefix(Flat(busWrites), DataOf(published))

\* C4 witness: three payloads reached the bus in more than one write
C4_Witness ==
    /\ Len(Flat(busWrites)) = 3
    /\ Len(busWrites) >= 2
    /\ Flat(busWrites) = DataOf(published)

\* C5: with positions delivered in non-decreasing order, the positions passed
\* to the checkpointer are non-decreasing
C5_CheckpointMonotonic ==
    \A i, j \in 1..Len(checkpoints) : i <= j => checkpoints[i].pos <= checkpoints[j].pos

\* C5 witness: three checkpoints, the last at a higher position than the first
C5_Witness ==
    /\ Len(checkpoints) = 3
    /\ checkpoints[1].pos < checkpoints[3].pos

\* the writer has shut down: Send has returned and the sender goroutine ended
ShutDown == sendPC = "returned" /\ senderPC = "done"

\* bytes of the messages that were admitted and not yet released: the message
\* a ProcessWALEvent call is publishing, the message and batches of the run
\* loop, the batch of the sender
BytesInFlight ==
    (IF procPC = "publish" THEN size(procMsg) ELSE 0)
    + (IF heldMsg # 0 THEN size(heldMsg) ELSE 0)
    + msgBatch.totalBytes + outBatch.totalBytes + senderBatch.totalBytes

\* C2 as claimed: the held bytes stay within the capacity, and once the writer
\* has shut down the bytes acquired equal the bytes released
C2_BalancedAtShutdown ==
    /\ semaHeld \in 0..MaxQueueBytes
    /\ ShutDown => acquired = released

\* C2 as amended: the held bytes stay within the capacity and equal the bytes
\* acquired minus the bytes released; at every moment, and so at shutdown,
\* that difference is the size of the messages admitted and not yet released
\* by the sender
C2_ByteAccounting ==
    /\ semaHeld \in 0..MaxQueueBytes
    /\ semaHeld = acquired - released
    /\ acquired - released = BytesInFlight
    /\ ShutDown => senderBatch.totalBytes = 0

\* C2 witness: the writer has shut down after releasing some bytes, with
\* other bytes still held for a pending batch
C2_Witness ==
    /\ ShutDown
    /\ released > 0
    /\ msgBatch.totalBytes > 0
    /\ acquired - released = msgBatch.totalBytes

\* C6 as claimed: after a failed bus write the run loop is never left blocked;
\* it is blocked for good when it waits to hand a batch to the sender
\* goroutine that has already reported the error and returned
C6_RunLoopNotBlockedAfterWriteError ==
    ~(senderPC = "done" /\ sendErrChan # <<>> /\ sendPC \in {"handoffTick", "handoffMsg"})

\* C7 as claimed: after cancellation no ProcessWALEvent call is left blocked;
\* it is blocked for good when it waits to publish on msgChan and the run
\* loop, the only receiver, has returned
C7_ProcessNotBlockedAfterCancel ==
    ~(cancelled /\ sendPC = "returned" /\ procPC = "publish")

\* C8 as claimed: when the run loop receives a keep alive while one payload
\* is pending, the batch drained on that receipt carries the keep alive's
\* position
C8_KeepAliveBatchCarriesItsPosition ==
    (sendPC = "handoffMsg" /\ isKeepAlive(heldMsg) /\ Len(outBatch.msgs) = 1)
        => outBatch.lastPos = events[heldMsg].pos

\* C9: ProcessWALEvent for a payload larger than MaxBatchBytes returns nil
\* at once, acquires nothing and publishes nothing; the dropped event is in no
\* batch, bus write or checkpoint; the next call can start
C9_DropTooLarge ==
    /\ [](\A id \in dropped :
            /\ id \notin Range(published) \cup Written \cup {procMsg, heldMsg}
            /\ \A b \in HandedOver \cup {msgBatch} : id \notin Range(b.msgs) /\ b.lastId # id
            /\ \A i \in 1..Len(checkpoints) : checkpoints[i].lastId # id)
    /\ [][(Len(events') > Len(events) /\ events'[Len(events')].size > MaxBatchBytes)
            => /\ procPC' = "idle"
               /\ procRet' = "ok"
               /\ Len(events') \in dropped'
               /\ UNCHANGED <<semaVars, loopVars, senderVars, histVars>>]_vars

\* C9 witness: after a too large event was dropped without any byte acquired,
\* a smaller event has been written and checkpointed
C9_Witness ==
    /\ 1 \in dropped
    /\ busWrites = <<(<<2>>)>>
    /\ Len(checkpoints) = 1
    /\ checkpoints[1].lastId = 2
    /\ acquired = size(2)

\* the checkpoints of the batches whose last message carries a payload
RECURSIVE DataCheckpoints(_)
DataCheckpoints(cs) ==
    IF cs = <<>> THEN <<>>
    ELSE IF size(Head(cs).lastId) > 0 THEN <<Head(cs)>> \o DataCheckpoints(Tail(cs))
    ELSE DataCheckpoints(Tail(cs))

\* C10: a tick hands the whole pending batch to the sender as one batch and
\* leaves nothing pending; the sender writes the messages of a batch in one
\* bus write and then calls the checkpointer with the position of the last
\* of them
C10_TickFlush ==
    /\ [][(sendPC = "select" /\ sendPC' = "handoffTick")
            => /\ outBatch'.msgs = msgBatch.msgs
               /\ msgBatch'.msgs = <<>>
               /\ (msgBatch.msgs # <<>> =>
                     outBatch'.lastPos = events[msgBatch.msgs[Len(msgBatch.msgs)]].pos)]_vars
    /\ []((senderPC = "checkpoint" /\ senderBatch.msgs # <<>>)
            => busWrites[Len(busWrites)] = senderBatch.msgs)
    /\ [](LET dc == DataCheckpoints(checkpoints) IN
            /\ Len(dc) <= Len(busWrites)
            /\ Len(busWrites) <= Len(dc) + 1
            /\ \A i \in 1..Len(dc) :
                 /\ dc[i].lastId = busWrites[i][Len(busWrites[i])]
                 /\ dc[i].pos = events[dc[i].lastId].pos)

\* C10 witness: the ticker fired with one message pending, fewer than
\* MaxBatchSize and smaller than MaxBatchBytes; that one batch was written and
\* its position checkpointed, and nothing is left pending
C10_Witness ==
    /\ Len(published) = 1
    /\ size(published[1]) \in 1..(MaxBatchBytes - 1)
    /\ busWrites = <<published>>
    /\ Len(checkpoints) = 1
    /\ checkpoints[1].pos = events[published[1]].pos
    /\ msgBatch = EmptyBatch
    /\ sendPC = "select"

\* the batches of the writer: pending, handed over, with the sender
Batches == {msgBatch, outBatch, senderBatch}

\* C11: a batch made of keep alives only has no messages and a position that
\* is not empty; for such a batch the sender makes no bus write and calls the
\* checkpointer with its position
C11_KeepAliveOnlyBatch ==
    /\ [](\A b \in Batches :
            (b.lastId # 0 /\ b.totalBytes = 0)
                => (b.msgs = <<>> /\ b.lastPos # EmptyPos /\ isKeepAlive(b.lastId)
                    /\ b.lastPos = events[b.lastId].pos))
    /\ [][(senderPC = "write" /\ senderPC' # senderPC
            /\ senderBatch.msgs = <<>> /\ senderBatch.lastPos # EmptyPos)
            => (senderPC' = "checkpoint" /\ busWrites' = busWrites)]_vars
    /\ [][(senderPC = "checkpoint" /\ senderPC' # senderPC
            /\ senderBatch.msgs = <<>> /\ senderBatch.lastPos # EmptyPos)
            => (/\ Len(checkpoints') = Len(checkpoints) + 1
                /\ checkpoints'[Len(checkpoints')].pos = senderBatch.lastPos)]_vars

\* C11 witness: the position of a keep alive was checkpointed and nothing was
\* written to the bus
C11_Witness ==
    /\ busWrites = <<>>
    /\ Len(checkpoints) = 1
    /\ isKeepAlive(checkpoints[1].lastId)
    /\ senderPC = "recv"

\* C12 as claimed: when the checkpointer call returns an error, sendBatch
\* fails, so that the sender goroutine reports the error and stops
C12_CheckpointFailureFatal == (senderPC = "release" /\ ckptErr) => senderErr

\* C12 as amended: an error of the checkpointer call is only logged: sendBatch
\* returns nil, the sender releases the bytes of the batch, reports nothing on
\* sendErrChan and waits for the next batch
C12_CheckpointFailureLogged ==
    /\ [](ckptErr => (senderPC = "release" /\ ~senderErr))
    /\ [][(senderPC = "release" /\ ckptErr /\ senderPC' # senderPC)
            => (/\ senderPC' = "recv"
                /\ sendErrChan' = sendErrChan
                /\ released' = released + senderBatch.totalBytes)]_vars

\* C12 witness: the checkpointer call failed after a successful bus write
C12_Witness ==
    /\ senderPC = "release"
    /\ ckptErr
    /\ Len(busWrites) = 1
    /\ busWrites[1] = senderBatch.msgs

\* ============================================================================
\* Search store retrier: StoreRetrier.SendDocuments
\* ============================================================================

\* retries the backoff provider of the retrier allows after the first call
MaxRetries == 2
\* documents of the largest batch handed to SendDocuments: testDocs, ids 1, 2, 3
NumDocs == 3
\* longest list of failed documents one store call answers with
MaxDocErrors == 2

Severities == {"DataLoss", "Retriable"}

\* the batches SendDocuments is called with: the first n documents
DocBatches == {[i \in 1..n |-> i] : n \in 1..NumDocs}

\* the failed-document lists the store can answer with for the documents sent
DocErrorLists(docs) ==
    UNION {[1..n -> [doc : Range(docs), sev : Severities]] : n \in 0..MaxDocErrors}

\* the errors of one severity, in the order the store reported them
withSeverity(errs, sev) == SelectSeq(errs, LAMBDA e : e.sev = sev)

\* the documents the errors are about, in order
docsOf(errs) == [i \in 1..Len(errs) |-> errs[i].doc]

budgetExhausted_Never(calls) == FALSE

\* the backoff gives up once the first call and MaxRetries retries were made
budgetExhausted(calls) == calls >= 1 + MaxRetries

\* SendDocuments(ctx, docs) is called
SendDocuments ==
    /\ rtPC = "idle"
    /\ \E docs \in DocBatches : rtDocs' = docs
    /\ rtPC' = "call"
    /\ UNCHANGED <<rtCalls, rtSent, rtAnswers, rtDataLoss, rtRetriable, rtRetErr, rtResult>>
    /\ UNCHANGED notRetrier

StoreTransportError_ReportOnExhaustion ==
    /\ rtPC = "call"
    /\ rtCalls' = rtCalls + 1
    /\ rtSent' = Append(rtSent, rtDocs)
    /\ rtAnswers' = Append(rtAnswers, [err |-> TRUE, failed |-> <<>>])
    /\ IF budgetExhausted(rtCalls')
          THEN /\ rtPC' = "done"
               /\ rtRetErr' = "none"
               /\ rtResult' = failedDocs(rtRetriable \o rtDataLoss)
          ELSE UNCHANGED <<rtPC, rtRetErr, rtResult>>
    /\ UNCHANGED <<rtDocs, rtDataLoss, rtRetriable>>
    /\ UNCHANGED notRetrier

\* the inner store fails as a whole: the same documents are sent again under
\* the backoff, and when the backoff gives up the error is returned
StoreTransportError ==
    /\ rtPC = "call"
    /\ rtCalls' = rtCalls + 1
    /\ rtSent' = Append(rtSent, rtDocs)
    /\ rtAnswers' = Append(rtAnswers, [err |-> TRUE, failed |-> <<>>])
    /\ IF budgetExhausted(rtCalls')
          THEN /\ rtPC' = "done"
               /\ rtRetErr' = "transport"
               /\ rtResult' = Nil
          ELSE UNCHANGED <<rtPC, rtRetErr, rtResult>>
    /\ UNCHANGED <<rtDocs, rtDataLoss, rtRetriable>>
    /\ UNCHANGED notRetrier

StoreResponds_ResendAllFailed ==
    /\ rtPC = "call"
    /\ \E errs \in DocErrorLists(rtDocs) :
          /\ rtCalls' = rtCalls + 1
          /\ rtSent' = Append(rtSent, rtDocs)
          /\ rtAnswers' = Append(rtAnswers, [err |-> FALSE, failed |-> errs])
          /\ rtDataLoss' = rtDataLoss \o withSeverity(errs, "DataLoss")
          /\ rtRetriable' = withSeverity(errs, "Retriable")
          /\ IF errs = <<>> \/ budgetExhausted(rtCalls')
                THEN /\ rtPC' = "done"
                     /\ rtRetErr' = "none"
                     /\ rtResult' = failedDocs(rtRetriable' \o rtDataLoss')
                     /\ UNCHANGED rtDocs
                ELSE /\ rtDocs' = docsOf(errs)
                     /\ UNCHANGED <<rtPC, rtRetErr, rtResult>>
    /\ UNCHANGED notRetrier

StoreResponds_DataLossFirst ==
    /\ rtPC = "call"
    /\ \E errs \in DocErrorLists(rtDocs) :
          /\ rtCalls' = rtCalls + 1
          /\ rtSent' = Append(rtSent, rtDocs)
          /\ rtAnswers' = Append(rtAnswers, [err |-> FALSE, failed |-> errs])
          /\ rtDataLoss' = rtDataLoss \o withSeverity(errs, "DataLoss")
          /\ rtRetriable' = withSeverity(errs, "Retriable")
          /\ IF rtRetriable' = <<>> \/ budgetExhausted(rtCalls')
                THEN /\ rtPC' = "done"
                     /\ rtRetErr' = "none"
                     /\ rtResult' = failedDocs(rtDataLoss' \o rtRetriable')
                     /\ UNCHANGED rtDocs
                ELSE /\ rtDocs' = docsOf(rtRetriable')
                     /\ UNCHANGED <<rtPC, rtRetErr, rtResult>>
    /\ UNCHANGED notRetrier

\* the inner store answers with the documents that failed: the DataLoss errors
\* are kept for the report, the documents of the Retriable errors are sent again
\* under the backoff, and without Retriable errors, or when the backoff gives
\* up, the report is returned
StoreResponds ==
    /\ rtPC = "call"
    /\ \E errs \in DocErrorLists(rtDocs) :
          /\ rtCalls' = rtCalls + 1
          /\ rtSent' = Append(rtSent, rtDocs)
          /\ rtAnswers' = Append(rtAnswers, [err |-> FALSE, failed |-> errs])
          /\ rtDataLoss' = rtDataLoss \o withSeverity(errs, "DataLoss")
          /\ rtRetriable' = withSeverity(errs, "Retriable")
          /\ IF rtRetriable' = <<>> \/ budgetExhausted(rtCalls')
                THEN /\ rtPC' = "done"
                     /\ rtRetErr' = "none"
                     /\ rtResult' = failedDocs(rtRetriable' \o rtDataLoss')
                     /\ UNCHANGED rtDocs
                ELSE /\ rtDocs' = docsOf(rtRetriable')
                     /\ UNCHANGED <<rtPC, rtRetErr, rtResult>>
    /\ UNCHANGED notRetrier

RetrierNext ==
    \/ SendDocuments
    \/ StoreTransportError
    \/ StoreResponds

RetrierSpec == Init /\ [][RetrierNext]_vars

RetrierTypeOK ==
    /\ rtPC \in {"idle", "call", "done"}
    /\ rtCalls \in 0..(1 + MaxRetries)
    /\ rtRetErr \in {"none", "transport"}
    /\ Len(rtSent) = rtCalls /\ Len(rtAnswers) = rtCalls

\* every call to the inner store returns
RetrierFairSpec == RetrierSpec /\ WF_vars(RetrierNext)

\* the DataLoss errors of the answers, in the order of the calls
RECURSIVE dataLossOf(_)
dataLossOf(answers) ==
    IF answers = <<>> THEN <<>>
    ELSE dataLossOf(SubSeq(answers, 1, Len(answers) - 1))
             \o withSeverity(answers[Len(answers)].failed, "DataLoss")

\* C13 (retrier termination): whatever the store answers, transport errors and
\* failed documents mixed, SendDocuments makes at most 1 + MaxRetries calls to
\* the inner store, has returned once that many were made, and always returns.
C13_RetrierTerminates ==
    /\ [](Len(rtSent) <= 1 + MaxRetries)
    /\ [](Len(rtSent) = 1 + MaxRetries => rtPC = "done")
    /\ (rtPC = "call") ~> (rtPC = "done")

\* the budget ran out on a mix of transport errors and failed documents
C13_Witness ==
    /\ rtPC = "done"
    /\ Len(rtSent) = 1 + MaxRetries
    /\ \E i, j \in 1..Len(rtAnswers) : rtAnswers[i].err /\ rtAnswers[j].failed # <<>>

\* the store calls that follow an answered call, and those that follow a failed one
RetryRounds == {i \in 2..Len(rtSent) : ~rtAnswers[i - 1].err}
ResendRounds == {i \in 2..Len(rtSent) : rtAnswers[i - 1].err}

\* the documents an answer reports with the severity
reported(answer, sev) == Range(docsOf(withSeverity(answer.failed, sev)))

\* C14 as stated: the documents of a retry round are those of the Retriable
\* errors of the round before, and a document reported with DataLoss severity
\* by an earlier round is never sent again.
C14_DataLossDocNeverResent ==
    /\ \A i \in RetryRounds :
          rtSent[i] = docsOf(withSeverity(rtAnswers[i - 1].failed, "Retriable"))
    /\ \A i \in 1..Len(rtSent) : \A j \in 1..(i - 1) :
          Range(rtSent[i]) \cap reported(rtAnswers[j], "DataLoss") = {}

\* C14 (amended): the documents of a retry round are exactly the documents of
\* the Retriable errors the round before answered with, in that order; so a
\* document that succeeded, or that was reported with DataLoss severity only, is
\* not sent in that round, while a document reported both Retriable and DataLoss
\* is sent again.
C14_RetryRoundSendsRetriable ==
    \A i \in RetryRounds :
        /\ rtSent[i] = docsOf(withSeverity(rtAnswers[i - 1].failed, "Retriable"))
        /\ Range(rtSent[i]) = reported(rtAnswers[i - 1], "Retriable")
        /\ Range(rtSent[i]) \subseteq Range(rtSent[i - 1])
        /\ (reported(rtAnswers[i - 1], "DataLoss") \ reported(rtAnswers[i - 1], "Retriable"))
               \cap Range(rtSent[i]) = {}

\* documents 1, 2, 3 were sent and document 1 came back both DataLoss and
\* Retriable: the retry round sends document 1 alone
C14_Witness ==
    /\ Len(rtSent) >= 2
    /\ rtSent[1] = <<1, 2, 3>>
    /\ rtAnswers[1] = [err |-> FALSE,
                       failed |-> <<[doc |-> 1, sev |-> "DataLoss"],
                                    [doc |-> 1, sev |-> "Retriable"]>>]
    /\ rtSent[2] = <<1>>

\* C15 (report of failed documents): when SendDocuments returns without a
\* transport error its error is nil and its list is the Retriable errors of the
\* last answer followed by the DataLoss errors of all answers, the empty list
\* when there are none, also when the budget ran out on Retriable errors.
C15_ReportRetriableThenDataLoss ==
    (rtPC = "done" /\ ~rtAnswers[Len(rtAnswers)].err)
        => /\ rtRetErr = "none"
           /\ ~rtResult.isNil
           /\ rtResult.errs = withSeverity(rtAnswers[Len(rtAnswers)].failed, "Retriable")
                                  \o dataLossOf(rtAnswers)

\* the budget ran out with a Retriable error left and a DataLoss error kept:
\* the report is <<{1, Retriable}, {1, DataLoss}>>
C15_Witness ==
    /\ rtPC = "done"
    /\ Len(rtSent) = 1 + MaxRetries
    /\ rtRetErr = "none"
    /\ rtResult.errs = <<[doc |-> 1, sev |-> "Retriable"], [doc |-> 1, sev |-> "DataLoss"]>>

\* C16 (transport errors): after a store call that failed as a whole the same
\* documents are sent again; SendDocuments returns the error only when the last
\* call the budget allows failed that way, and then with a nil list; when a
\* later call is answered it returns no error.
C16_TransportErrorRetried ==
    /\ \A i \in ResendRounds : rtSent[i] = rtSent[i - 1]
    /\ (rtPC = "done" /\ rtAnswers[Len(rtAnswers)].err)
          => (rtRetErr = "transport" /\ rtResult = Nil /\ Len(rtSent) = 1 + MaxRetries)
    /\ (rtPC = "done" /\ ~rtAnswers[Len(rtAnswers)].err) => rtRetErr = "none"
    /\ (rtPC # "done") => (rtRetErr = "none" /\ rtResult = Nil)

\* every call the budget allows failed: the error is returned
C16_Witness ==
    /\ rtPC = "done"
    /\ rtRetErr = "transport"
    /\ \A i \in 1..Len(rtAnswers) : rtAnswers[i].err
    /\ rtSent = <<rtDocs, rtDocs, rtDocs>>

\* ============================================================================
\* ProcessWALEvent in detail: the message key
\* ============================================================================

\* most columns of an event
MaxColumns == 2

WalSchemas == {"pgstream", "public"}
WalTables == {"schema_log", "users"}
ColumnNames == {"schema_name", "id"}
\* column values: a string and a value that is not a string
ColumnValues == {[isString |-> TRUE, v |-> "public"], [isString |-> FALSE, v |-> "7"]}
\* serialised sizes: the largest accepted record and the smallest too large one
KeySizes == {MaxBatchBytes, MaxBatchBytes + 1}

\* a schema-log event without columns that the serialiser fails on
Unserialisable == [hasData |-> TRUE, schema |-> "pgstream", table |-> "schema_log",
                   columns |-> <<>>, size |-> 0, serErr |-> TRUE]

\* the events ProcessWALEvent is called with: keep-alives, an event that fails
\* to serialise, and data events with the size of their serialised form
WalEvents ==
    {NoData, Unserialisable} \cup
    [hasData : {TRUE}, schema : WalSchemas, table : WalTables,
     columns : UNION {[1..n -> [name : ColumnNames, value : ColumnValues]] : n \in 0..MaxColumns},
     size : KeySizes, serErr : {FALSE}]

\* processor.IsSchemaLogEvent: a write to the schema-log table of pgstream
IsSchemaLogEvent(d) == d.schema = "pgstream" /\ d.table = "schema_log"

\* the columns named schema_name
schemaNameColumns(d) == {i \in 1..Len(d.columns) : d.columns[i].name = "schema_name"}

getMessageKey_AlwaysSchema(d) == [panic |-> FALSE, key |-> d.schema]

getMessageKey_NoPanic(d) ==
    IF ~IsSchemaLogEvent(d) \/ schemaNameColumns(d) = {}
       THEN [panic |-> FALSE, key |-> d.schema]
       ELSE LET first == CHOOSE i \in schemaNameColumns(d) :
                             \A j \in schemaNameColumns(d) : i <= j
            IN  [panic |-> FALSE, key |-> d.columns[first].value.v]

\* the key of the bus record, or a panic: the schema of the event, and for a
\* schema-log event the value of its first schema_name column, which must be
\* there and be a string
getMessageKey(d) ==
    IF ~IsSchemaLogEvent(d) THEN [panic |-> FALSE, key |-> d.schema]
    ELSE IF schemaNameColumns(d) = {} THEN [panic |-> TRUE, key |-> ""]
    ELSE LET first == CHOOSE i \in schemaNameColumns(d) :
                          \A j \in schemaNameColumns(d) : i <= j
         IN  IF d.columns[first].value.isString
                THEN [panic |-> FALSE, key |-> d.columns[first].value.v]
                ELSE [panic |-> TRUE, key |-> ""]

\* the message ProcessWALEvent builds for the event
kafkaMsg(ev) ==
    IF ev.hasData
       THEN [hasData |-> TRUE, key |-> getMessageKey(ev).key, size |-> ev.size]
       ELSE NoMsg

\* ProcessWALEvent(ctx, walEvent) up to its first blocking point: it returns
\* (serialiser error, record too large, panic in getMessageKey recovered into an
\* error), blocks in Acquire, or blocks on msgChan with the bytes acquired
ProcessWALEventKeyed ==
    /\ keyPC = "idle"
    /\ \E ev \in WalEvents :
         /\ keyEvent' = ev
         /\ IF ev.hasData /\ ev.serErr
               THEN /\ keyRet' = "marshal"
                    /\ UNCHANGED <<keyPC, keyMsg, semaHeld>>
            ELSE IF ev.hasData /\ tooLarge(ev.size)
               THEN /\ keyRet' = "nil"
                    /\ UNCHANGED <<keyPC, keyMsg, semaHeld>>
            ELSE IF ev.hasData /\ getMessageKey(ev).panic
               THEN /\ keyRet' = "understanding"
                    /\ UNCHANGED <<keyPC, keyMsg, semaHeld>>
            ELSE /\ keyMsg' = kafkaMsg(ev)
                 /\ keyRet' = "none"
                 /\ IF semaFits(keyMsg'.size)
                       THEN /\ semaHeld' = semaHeld + keyMsg'.size
                            /\ keyPC' = "publish"
                       ELSE /\ keyPC' = "acquire"
                            /\ UNCHANGED semaHeld
    /\ UNCHANGED <<cancelled, closed, keyUnreleased>>
    /\ UNCHANGED notKey

\* queueBytesSema.Acquire(ctx, msgSize) is granted
KeyAcquireGranted ==
    /\ keyPC = "acquire"
    /\ semaFits(keyMsg.size)
    /\ semaHeld' = semaHeld + keyMsg.size
    /\ keyPC' = "publish"
    /\ UNCHANGED <<cancelled, closed, keyEvent, keyMsg, keyRet, keyUnreleased>>
    /\ UNCHANGED notKey

\* queueBytesSema.Acquire(ctx, msgSize) returns ctx.Err()
KeyAcquireCancelled ==
    /\ keyPC = "acquire"
    /\ cancelled
    /\ keyPC' = "idle"
    /\ keyRet' = "ctx"
    /\ UNCHANGED <<cancelled, closed, semaHeld, keyEvent, keyMsg, keyUnreleased>>
    /\ UNCHANGED notKey

\* the run loop receives the message from msgChan and ProcessWALEvent returns nil
KeyMsgReceived ==
    /\ keyPC = "publish"
    /\ keyPC' = "idle"
    /\ keyRet' = "nil"
    /\ keyUnreleased' = keyUnreleased + keyMsg.size
    /\ UNCHANGED <<cancelled, closed, semaHeld, keyEvent, keyMsg>>
    /\ UNCHANGED notKey

\* the sender releases the bytes of the batch it was handed
KeySenderRelease ==
    /\ keyUnreleased > 0
    /\ semaHeld' = semaHeld - keyUnreleased
    /\ keyUnreleased' = 0
    /\ UNCHANGED <<cancelled, closed, keyPC, keyEvent, keyMsg, keyRet>>
    /\ UNCHANGED notKey

KeyNext ==
    \/ ProcessWALEventKeyed
    \/ KeyAcquireGranted
    \/ KeyAcquireCancelled
    \/ KeyMsgReceived
    \/ KeySenderRelease
    \/ Cancel

KeySpec == Init /\ [][KeyNext]_vars

KeyTypeOK ==
    /\ keyPC \in {"idle", "acquire", "publish"}
    /\ keyRet \in {"none", "nil", "marshal", "understanding", "ctx"}
    /\ keyEvent \in WalEvents
    /\ semaHeld \in 0..MaxQueueBytes
    /\ keyUnreleased \in 0..semaHeld

\* a schema-log event that getMessageKey cannot key: no column named
\* schema_name, or the first one holds a value that is not a string
badSchemaLog(ev) ==
    /\ ev.hasData
    /\ ev.schema = "pgstream" /\ ev.table = "schema_log"
    /\ \/ \A i \in 1..Len(ev.columns) : ev.columns[i].name # "schema_name"
       \/ \E i \in 1..Len(ev.columns) :
             /\ ev.columns[i].name = "schema_name"
             /\ ~ev.columns[i].value.isString
             /\ \A j \in 1..(i - 1) : ev.columns[j].name # "schema_name"

\* C17 (key invariance): the message of a data event that ProcessWALEvent puts
\* on the channel carries the schema of the event as key when the event is not
\* a write to pgstream.schema_log, and otherwise the string value of the first
\* column named schema_name.
C17_KeyInvariance ==
    (keyPC = "publish" /\ keyEvent.hasData)
        => /\ keyMsg.hasData
           /\ ~(keyEvent.schema = "pgstream" /\ keyEvent.table = "schema_log")
                 => keyMsg.key = keyEvent.schema
           /\ (keyEvent.schema = "pgstream" /\ keyEvent.table = "schema_log")
                 => \E i \in 1..Len(keyEvent.columns) :
                       /\ keyEvent.columns[i].name = "schema_name"
                       /\ keyEvent.columns[i].value.isString
                       /\ keyMsg.key = keyEvent.columns[i].value.v
                       /\ \A j \in 1..(i - 1) : keyEvent.columns[j].name # "schema_name"

\* a schema-log event with schema_name "public" is on the channel with key "public"
C17_Witness ==
    /\ keyPC = "publish"
    /\ keyEvent.schema = "pgstream" /\ keyEvent.table = "schema_log"
    /\ keyEvent.columns = <<[name |-> "id", value |-> [isString |-> FALSE, v |-> "7"]],
                            [name |-> "schema_name", value |-> [isString |-> TRUE, v |-> "public"]]>>
    /\ keyMsg.key = "public"

\* C18 as stated: every call with a schema-log event that has no schema_name
\* column, or a schema_name that is not a string, returns an error.
C18_BadSchemaLogAlwaysError ==
    (keyPC = "idle" /\ badSchemaLog(keyEvent)) => keyRet \in {"marshal", "understanding"}

\* C18 (amended): a call with such an event acquires no semaphore bytes and
\* puts no message on the channel; it returns an error, the recovered panic of
\* getMessageKey unless the serialiser failed before, when the serialised event
\* is not larger than maxBatchBytes, and it returns nil, the event dropped as too
\* large, when it is larger.
C18_BadSchemaLogRejected ==
    [][(keyPC = "idle" /\ keyEvent' # keyEvent /\ badSchemaLog(keyEvent'))
          => /\ keyPC' = "idle"
             /\ semaHeld' = semaHeld
             /\ keyMsg' = keyMsg
             /\ keyUnreleased' = keyUnreleased
             /\ keyRet' = IF keyEvent'.serErr THEN "marshal"
                          ELSE IF keyEvent'.size > MaxBatchBytes THEN "nil"
                          ELSE "understanding"]_vars

\* a schema-log event whose schema_name is not a string was rejected while an
\* earlier message is still accounted for in the semaphore
C18_Witness ==
    /\ keyPC = "idle"
    /\ badSchemaLog(keyEvent)
    /\ keyEvent.columns # <<>>
    /\ keyRet = "understanding"
    /\ semaHeld > 0

\* ============================================================================
\* Replication listener: Listener.Listen
\* ============================================================================

\* most ReceiveMessage calls of one run of Listen
MaxReceives == 3

\* an LSN is a 64-bit number, written here as its 16 hexadecimal digits
zeroLSN == [i \in 1..16 |-> 0]
testLSN == <<0, 0, 0, 0, 0, 0, 0, 1, 12, 15, 5, 4, 10, 0, 4, 8>>
nextLSN == <<0, 0, 0, 0, 0, 0, 0, 2, 0, 0, 0, 0, 0, 0, 0, 0>>
testLSNStr == <<"1", "/", "C", "F", "5", "4", "A", "0", "4", "8">>
LSNs == {zeroLSN, testLSN, nextLSN}

HexDigits == <<"0", "1", "2", "3", "4", "5", "6", "7", "8", "9", "A", "B", "C", "D", "E", "F">>

\* a 32-bit half printed as %X: no leading zeros, one digit at least
RECURSIVE formatHex(_)
formatHex(digits) ==
    IF Len(digits) > 1 /\ Head(digits) = 0 THEN formatHex(Tail(digits))
    ELSE [i \in 1..Len(digits) |-> HexDigits[digits[i] + 1]]

\* lsnParser.ToString: the high and the low half of the LSN as %X/%X
LSNToString(lsn) == formatHex(SubSeq(lsn, 1, 8)) \o <<"/">> \o formatHex(SubSeq(lsn, 9, 16))

\* message data: nothing (a keep-alive), two rows, and bytes that do not parse
NoBytes == "none"
Payloads == {"insert-row", "delete-row", "garbage"}

\* the messages ReceiveMessage returns; the tests build data messages without
\* reply requested and keep-alives with and without it
ReplicationMessages ==
    [lsn : LSNs, data : Payloads, replyRequested : {FALSE}]
        \cup [lsn : LSNs, data : {NoBytes}, replyRequested : BOOLEAN]

\* stands for the nil message a failed ReceiveMessage returns
NoMessage == [lsn |-> zeroLSN, data |-> NoBytes, replyRequested |-> FALSE]

\* walDataDeserialiser
deserialiseFails(bytes) == bytes = "garbage"
deserialise(bytes) == IF bytes = "insert-row" THEN [action |-> "I"] ELSE [action |-> "D"]
NoWalData == [action |-> ""]

\* a keep-alive nobody asked a reply for is not passed on
skipMessage(msg) == msg.data = NoBytes /\ ~msg.replyRequested

eventOf_NoPosition(msg) ==
    IF msg.data = NoBytes
       THEN [hasData |-> FALSE, data |-> NoWalData, commitPosition |-> LSNToString(zeroLSN)]
       ELSE [hasData |-> TRUE, data |-> deserialise(msg.data),
             commitPosition |-> LSNToString(msg.lsn)]

\* the event the listener builds for a message
eventOf(msg) ==
    IF msg.data = NoBytes
       THEN [hasData |-> FALSE, data |-> NoWalData, commitPosition |-> LSNToString(msg.lsn)]
       ELSE [hasData |-> TRUE, data |-> deserialise(msg.data),
             commitPosition |-> LSNToString(msg.lsn)]

\* the context is done at the top of the loop: Listen returns ctx.Err()
ListenCtxDone ==
    /\ lsPC = "receive"
    /\ cancelled
    /\ lsPC' = "done"
    /\ lsErr' = "canceled"
    /\ UNCHANGED <<lsReceived, lsProcessed>>
    /\ UNCHANGED notListener

ListenTimeout_Surfaces ==
    /\ lsPC = "receive"
    /\ ~cancelled
    /\ Len(lsReceived) < MaxReceives
    /\ lsReceived' = Append(lsReceived, [kind |-> "timeout", msg |-> NoMessage])
    /\ lsPC' = "done"
    /\ lsErr' = "receive"
    /\ UNCHANGED lsProcessed
    /\ UNCHANGED notListener

\* ReceiveMessage returns ErrConnTimeout: the loop goes on
ListenTimeout ==
    /\ lsPC = "receive"
    /\ ~cancelled
    /\ Len(lsReceived) < MaxReceives
    /\ lsReceived' = Append(lsReceived, [kind |-> "timeout", msg |-> NoMessage])
    /\ UNCHANGED <<lsPC, lsErr, lsProcessed>>
    /\ UNCHANGED notListener

\* ReceiveMessage returns another error: Listen returns it wrapped
ListenReceiveError ==
    /\ lsPC = "receive"
    /\ ~cancelled
    /\ Len(lsReceived) < MaxReceives
    /\ lsReceived' = Append(lsReceived, [kind |-> "error", msg |-> NoMessage])
    /\ lsPC' = "done"
    /\ lsErr' = "receive"
    /\ UNCHANGED lsProcessed
    /\ UNCHANGED notListener

ListenMessage_ErrorsLogged ==
    /\ lsPC = "receive"
    /\ ~cancelled
    /\ Len(lsReceived) < MaxReceives
    /\ \E msg \in ReplicationMessages, ok \in BOOLEAN :
         /\ lsReceived' = Append(lsReceived, [kind |-> "message", msg |-> msg])
         /\ IF skipMessage(msg) \/ (msg.data # NoBytes /\ deserialiseFails(msg.data))
               THEN /\ ok
                    /\ UNCHANGED <<lsPC, lsErr, lsProcessed>>
               ELSE /\ lsProcessed' = Append(lsProcessed,
                           [call |-> Len(lsReceived'), event |-> eventOf(msg), ok |-> ok])
                    /\ UNCHANGED <<lsPC, lsErr>>
    /\ UNCHANGED notListener

\* ReceiveMessage returns a message: it is skipped, or fails to deserialise, or
\* its event is handed to the processor, whose error ends Listen
ListenMessage ==
    /\ lsPC = "receive"
    /\ ~cancelled
    /\ Len(lsReceived) < MaxReceives
    /\ \E msg \in ReplicationMessages, ok \in BOOLEAN :
         /\ lsReceived' = Append(lsReceived, [kind |-> "message", msg |-> msg])
         /\ IF skipMessage(msg)
               THEN /\ ok
                    /\ UNCHANGED <<lsPC, lsErr, lsProcessed>>
            ELSE IF msg.data # NoBytes /\ deserialiseFails(msg.data)
               THEN /\ ok
                    /\ lsPC' = "done"
                    /\ lsErr' = "deserialise"
                    /\ UNCHANGED lsProcessed
            ELSE /\ lsProcessed' = Append(lsProcessed,
                        [call |-> Len(lsReceived'), event |-> eventOf(msg), ok |-> ok])
                 /\ IF ok THEN UNCHANGED <<lsPC, lsErr>>
                          ELSE lsPC' = "done" /\ lsErr' = "process"
    /\ UNCHANGED notListener

ListenerNext ==
    \/ ListenCtxDone
    \/ ListenTimeout
    \/ ListenReceiveError
    \/ ListenMessage
    \/ Cancel

ListenerSpec == Init /\ [][ListenerNext]_vars

ListenerTypeOK ==
    /\ lsPC \in {"receive", "done"}
    /\ lsErr \in {"none", "canceled", "receive", "deserialise", "process"}
    /\ Len(lsReceived) \in 0..MaxReceives
    /\ Len(lsProcessed) <= Len(lsReceived)
    /\ LSNToString(testLSN) = testLSNStr

\* the processor calls made for the i-th ReceiveMessage call
callsFor(i) == {k \in 1..Len(lsProcessed) : lsProcessed[k].call = i}

\* the i-th ReceiveMessage call returned a message, with data or without
isDataMessage(i) ==
    /\ lsReceived[i].kind = "message"
    /\ lsReceived[i].msg.data # NoBytes
    /\ ~deserialiseFails(lsReceived[i].msg.data)
isNilMessage(i) == lsReceived[i].kind = "message" /\ lsReceived[i].msg.data = NoBytes

\* the processor was called once for the i-th message, with its data
\* deserialised and its LSN in string form
deliveredData(i) ==
    /\ Cardinality(callsFor(i)) = 1
    /\ \A k \in callsFor(i) :
          /\ lsProcessed[k].event.hasData
          /\ lsProcessed[k].event.data = deserialise(lsReceived[i].msg.data)
          /\ lsProcessed[k].event.commitPosition = LSNToString(lsReceived[i].msg.lsn)

\* the processor was called once for the i-th message, with a keep-alive event
deliveredKeepAlive(i) ==
    /\ Cardinality(callsFor(i)) = 1
    /\ \A k \in callsFor(i) :
          /\ ~lsProcessed[k].event.hasData
          /\ lsProcessed[k].event.commitPosition = LSNToString(lsReceived[i].msg.lsn)

\* C19 (connection timeout retried): a ReceiveMessage call that returns
\* ErrConnTimeout leads to no processor call and to no error from Listen, which
\* goes on to receive (it returns only when its context is cancelled); when the
\* next call returns a valid message the processor is called exactly once, with
\* the event of that message.
C19_ConnTimeoutRetried ==
    \A i \in 1..Len(lsReceived) :
        lsReceived[i].kind = "timeout"
            => /\ callsFor(i) = {}
               /\ i = Len(lsReceived)
                     => \/ lsPC = "receive" /\ lsErr = "none"
                        \/ lsPC = "done" /\ lsErr = "canceled" /\ cancelled
               /\ (i < Len(lsReceived) /\ isDataMessage(i + 1)) => deliveredData(i + 1)
               /\ (i < Len(lsReceived) /\ isNilMessage(i + 1)
                     /\ lsReceived[i + 1].msg.replyRequested) => deliveredKeepAlive(i + 1)

\* call 1 timed out, call 2 returned the test message: one processor call,
\* with commit position 1/CF54A048, and Listen still runs
C19_Witness ==
    /\ Len(lsReceived) = 2
    /\ lsReceived[1].kind = "timeout"
    /\ lsReceived[2] = [kind |-> "message",
                        msg |-> [lsn |-> testLSN, data |-> "insert-row", replyRequested |-> FALSE]]
    /\ Len(lsProcessed) = 1
    /\ lsProcessed[1].event = [hasData |-> TRUE, data |-> [action |-> "I"],
                               commitPosition |-> testLSNStr]
    /\ lsPC = "receive" /\ lsErr = "none"

\* C20 as stated: every received message without data reaches the processor as
\* a keep-alive event with the LSN in string form, every message with data as
\* its deserialised data with the LSN in string form.
C20_EveryNilMessageDelivered ==
    \A i \in 1..Len(lsReceived) :
        /\ isNilMessage(i) => deliveredKeepAlive(i)
        /\ isDataMessage(i) => deliveredData(i)

\* C20 (amended): a received message without data reaches the processor, as a
\* keep-alive event without data and with the LSN in string form, when it asks
\* for a reply, and does not reach the processor when it asks for none; a
\* message with data reaches it as the deserialised data with the LSN in string form.
C20_KeepAliveOnReplyRequested ==
    \A i \in 1..Len(lsReceived) :
        /\ (isNilMessage(i) /\ lsReceived[i].msg.replyRequested) => deliveredKeepAlive(i)
        /\ (isNilMessage(i) /\ ~lsReceived[i].msg.replyRequested) => callsFor(i) = {}
        /\ isDataMessage(i) => deliveredData(i)

\* the keep-alive of the tests (reply requested, LSN 1/CF54A048) reached the
\* processor, the empty message that followed did not
C20_Witness ==
    /\ Len(lsReceived) = 2
    /\ lsReceived[1].msg = [lsn |-> testLSN, data |-> NoBytes, replyRequested |-> TRUE]
    /\ lsReceived[2] = [kind |-> "message", msg |-> NoMessage]
    /\ Len(lsProcessed) = 1
    /\ lsProcessed[1].event = [hasData |-> FALSE, data |-> NoWalData,
                               commitPosition |-> testLSNStr]

MaxFetches == 3

\* what processRecord can do with an event: return nil, return an error,
\* return an error that is context.Canceled, or panic
ProcessorOutcomes == {"ok", "err", "canceled", "panic"}

\* the context is done at the top of the loop: Listen returns ctx.Err()
ReaderCtxDone ==
    /\ brPC = "fetch"
    /\ cancelled
    /\ brPC' = "done"
    /\ brErr' = "ctx"
    /\ UNCHANGED <<brFetched, brProcessed, brDataLoss>>
    /\ UNCHANGED notBus

\* FetchMessage returns an error: Listen returns it wrapped
ReaderFetchError ==
    /\ brPC = "fetch"
    /\ ~cancelled
    /\ Len(brFetched) < MaxFetches
    /\ brFetched' = Append(brFetched, [kind |-> "error", value |-> NoBytes])
    /\ brPC' = "done"
    /\ brErr' = "fetch"
    /\ UNCHANGED <<brProcessed, brDataLoss>>
    /\ UNCHANGED notBus

ReaderMessage_StopsOnError ==
    /\ brPC = "fetch"
    /\ ~cancelled
    /\ Len(brFetched) < MaxFetches
    /\ \E value \in Payloads, outcome \in ProcessorOutcomes :
         /\ brFetched' = Append(brFetched, [kind |-> "message", value |-> value])
         /\ IF deserialiseFails(value)
               THEN /\ outcome = "ok"
                    /\ brPC' = "done"
                    /\ brErr' = "unmarshal"
                    /\ UNCHANGED <<brProcessed, brDataLoss>>
               ELSE /\ brProcessed' = Append(brProcessed,
                           [call |-> Len(brFetched'), data |-> deserialise(value),
                            outcome |-> outcome])
                    /\ UNCHANGED brDataLoss
                    /\ brPC' = CASE outcome = "ok" -> "fetch"
                                 [] outcome = "panic" -> "panicked"
                                 [] OTHER -> "done"
                    /\ brErr' = IF outcome \in {"err", "canceled"} THEN "canceled" ELSE brErr
    /\ UNCHANGED notBus

\* FetchMessage returns a message: a value that does not unmarshal makes Listen
\* return the error; otherwise processRecord is called with the event, its
\* context.Canceled makes Listen return, any other error of it is logged with
\* severity DATALOSS and the loop goes on, and its panic leaves Listen, which
\* has no recover
ReaderMessage ==
    /\ brPC = "fetch"
    /\ ~cancelled
    /\ Len(brFetched) < MaxFetches
    /\ \E value \in Payloads, outcome \in ProcessorOutcomes :
         /\ brFetched' = Append(brFetched, [kind |-> "message", value |-> value])
         /\ IF deserialiseFails(value)
               THEN /\ outcome = "ok"
                    /\ brPC' = "done"
                    /\ brErr' = "unmarshal"
                    /\ UNCHANGED <<brProcessed, brDataLoss>>
               ELSE /\ brProcessed' = Append(brProcessed,
                           [call |-> Len(brFetched'), data |-> deserialise(value),
                            outcome |-> outcome])
                    /\ brDataLoss' = IF outcome = "err" THEN brDataLoss \cup {Len(brFetched')}
                                                        ELSE brDataLoss
                    /\ brPC' = CASE outcome = "canceled" -> "done"
                                 [] outcome = "panic" -> "panicked"
                                 [] OTHER -> "fetch"
                    /\ brErr' = IF outcome = "canceled" THEN "canceled" ELSE brErr
    /\ UNCHANGED notBus

BusNext ==
    \/ ReaderCtxDone
    \/ ReaderFetchError
    \/ ReaderMessage
    \/ Cancel

BusSpec == Init /\ [][BusNext]_vars

BusTypeOK ==
    /\ brPC \in {"fetch", "done", "panicked"}
    /\ brErr \in {"none", "ctx", "fetch", "unmarshal", "canceled"}
    /\ Len(brFetched) \in 0..MaxFetches
    /\ Len(brProcessed) <= Len(brFetched)
    /\ brDataLoss \subseteq 1..Len(brFetched)

\* the processRecord calls made for the i-th FetchMessage call
recordCalls(i) == {k \in 1..Len(brProcessed) : brProcessed[k].call = i}

\* Listen is still in its loop, or left it because its own context was done
readerGoesOn ==
    \/ brPC = "fetch" /\ brErr = "none"
    \/ brPC = "done" /\ brErr = "ctx" /\ cancelled

\* C22 (processor errors of the bus listener): an error of processRecord that
\* is not a cancellation is logged with severity DATALOSS and Listen goes on to
\* the next fetch; a cancellation error makes Listen return an error wrapping
\* it, without a DATALOSS log.
C22_ProcessorErrorLogged ==
    \A k \in 1..Len(brProcessed) :
        LET i == brProcessed[k].call IN
        /\ brProcessed[k].outcome = "err"
              => /\ i \in brDataLoss
                 /\ i = Len(brFetched) => readerGoesOn
        /\ brProcessed[k].outcome = "canceled"
              => /\ i = Len(brFetched)
                 /\ brPC = "done" /\ brErr = "canceled"
                 /\ i \notin brDataLoss
        /\ brProcessed[k].outcome = "ok" => i \notin brDataLoss

\* the processor rejected the first record, which was logged, took the second,
\* and returned a cancellation for the third
C22_Witness ==
    /\ Len(brProcessed) = 3
    /\ brProcessed[1].outcome = "err"
    /\ brProcessed[2].outcome = "ok"
    /\ brProcessed[3].outcome = "canceled"
    /\ brDataLoss = {1}
    /\ brPC = "done" /\ brErr = "canceled"

\* C23: a panic of the processor never leaves Listen of the bus listener.
C23_PanicNeverLeavesListen ==
    \A k \in 1..Len(brProcessed) :
        brProcessed[k].outcome = "panic" => brPC # "panicked"

\* C24: a fetched message that fails between listener and processor, its value
\* not unmarshalling or the processor rejecting it, is logged with severity
\* DATALOSS and Listen goes on.
C24_BadRecordDoesNotHalt ==
    \A i \in 1..Len(brFetched) :
        (brFetched[i].kind = "message"
           /\ \/ deserialiseFails(brFetched[i].value)
              \/ \E k \in recordCalls(i) : brProcessed[k].outcome = "err")
            => /\ i \in brDataLoss
               /\ i = Len(brFetched) => readerGoesOn

\* ============================================================================
\* NewBatchWriter: the capacity of the queue semaphore
\* ============================================================================

\* 100 MiB
defaultMaxQueueBytes == 104857600

\* byte counts of a configuration: unset or negative, small, and around the default
ConfigBytes == {-1, 0, 1, 2, 1024, 1048576,
                defaultMaxQueueBytes - 1, defaultMaxQueueBytes, defaultMaxQueueBytes + 1,
                2 * defaultMaxQueueBytes}

WriterConfigs == [BatchBytes : ConfigBytes, MaxQueueBytes : ConfigBytes]

\* NewBatchWriter(config, checkpointer): a MaxQueueBytes that is set is checked
\* against BatchBytes and used, an unset one is replaced by the default without
\* a check; kafka.NewWriter may fail
NewBatchWriter ==
    /\ \E config \in WriterConfigs, writerFails \in BOOLEAN :
         /\ cfgConfig' = config
         /\ IF config.MaxQueueBytes > 0 /\ config.MaxQueueBytes < config.BatchBytes
               THEN /\ ~writerFails
                    /\ cfgPC' = "failed"
                    /\ cfgErr' = "queue"
                    /\ cfgCapacity' = 0
            ELSE IF writerFails
               THEN /\ cfgPC' = "failed"
                    /\ cfgErr' = "writer"
                    /\ cfgCapacity' = 0
            ELSE /\ cfgPC' = "built"
                 /\ cfgErr' = "none"
                 /\ cfgCapacity' = IF config.MaxQueueBytes > 0 THEN config.MaxQueueBytes
                                                               ELSE defaultMaxQueueBytes
    /\ cfgProc' = "idle"
    /\ cfgMsgSize' = 0
    /\ UNCHANGED notConfig

\* the serialised sizes of the events the built writer is called with
MessageBytes == {b \in ConfigBytes : b >= 0}

\* The first ProcessWALEvent call on the writer NewBatchWriter built, up to its
\* first blocking point. The queue is empty: TryAcquire succeeds when the
\* message fits the capacity; Acquire of more than the capacity waits for the
\* context to be done.
BuiltProcessWALEvent ==
    /\ cfgPC = "built"
    /\ cfgProc = "idle"
    /\ \E sz \in MessageBytes :
         IF sz > cfgConfig.BatchBytes
            THEN /\ cfgProc' = "dropped"
                 /\ UNCHANGED cfgMsgSize
            ELSE /\ cfgMsgSize' = sz
                 /\ cfgProc' = IF sz <= cfgCapacity THEN "publish" ELSE "acquire"
    /\ UNCHANGED <<cfgPC, cfgConfig, cfgCapacity, cfgErr>>
    /\ UNCHANGED notConfig

ConfigNext ==
    \/ NewBatchWriter
    \/ BuiltProcessWALEvent

ConfigSpec == Init /\ [][ConfigNext]_vars

ConfigTypeOK ==
    /\ cfgPC \in {"new", "built", "failed"}
    /\ cfgConfig \in WriterConfigs
    /\ cfgErr \in {"none", "queue", "writer"}
    /\ cfgPC = "built" <=> (cfgErr = "none" /\ cfgCapacity > 0)
    /\ cfgProc \in {"idle", "dropped", "acquire", "publish"}
    /\ cfgMsgSize \in MessageBytes
    /\ cfgProc # "idle" => cfgPC = "built"

\* C25: a batch writer that NewBatchWriter built has a queue capacity, the
\* configured MaxQueueBytes or the default, of at least BatchBytes.
C25_CapacityAtLeastBatchBytes ==
    cfgPC = "built" => cfgCapacity >= cfgConfig.BatchBytes

\* C28 (backpressure without deadlock), its last part: no message that
\* reaches the acquire step of ProcessWALEvent is larger than the capacity of
\* the queue semaphore.
C28_AcquireWithinCapacity ==
    cfgProc \in {"acquire", "publish"} => cfgMsgSize <= cfgCapacity

\* C29 (cancellation stops the writer): once the root context is cancelled,
\* a return of Send is a return of the cancellation error with the channel
\* feeding the sender closed, and the sender starts no checkpointer call.
C29_CancelStopsWriter ==
    /\ [][(cancelled /\ sendPC # "returned" /\ sendPC' = "returned")
            => (sendRet' = "ctx" /\ batchChanClosed')]_vars
    /\ [][cancelled => checkpoints' = checkpoints]_vars

\* C26 (the sender serialises the batches): the sender holds one batch at a
\* time; it takes a batch only when it waits for one, every bus write,
\* checkpointer call and byte release is that of the batch it holds, in this
\* order, and it waits for the next batch only after it released the bytes of
\* the one it holds.
C26_SenderSerialises ==
    /\ [][senderBatch' # senderBatch
            => \/ senderPC = "recv" /\ senderPC' = "write"
               \/ senderPC = "release" /\ senderPC' # "release" /\ senderBatch' = EmptyBatch]_vars
    /\ [](senderPC \in {"recv", "done"} => senderBatch = EmptyBatch)
    /\ [][busWrites' # busWrites
            => (/\ senderPC = "write" /\ senderPC' = "checkpoint"
                /\ busWrites' = Append(busWrites, senderBatch.msgs)
                /\ senderBatch' = senderBatch)]_vars
    /\ [][checkpoints' # checkpoints
            => (/\ senderPC = "checkpoint" /\ senderPC' = "release"
                /\ Len(checkpoints') = Len(checkpoints) + 1
                /\ checkpoints'[Len(checkpoints')].pos = senderBatch.lastPos
                /\ senderBatch' = senderBatch)]_vars
    /\ [][released' # released
            => (/\ senderPC = "release" /\ senderPC' \in {"recv", "done"}
                /\ released' = released + senderBatch.totalBytes)]_vars
    /\ [][(senderPC # "recv" /\ senderPC' = "recv") => senderPC = "release"]_vars

\* the sender wrote, checkpointed and released two batches and waits for a third
C26_Witness ==
    /\ Len(busWrites) = 2
    /\ Len(checkpoints) = 2
    /\ senderPC = "recv"
    /\ senderBatch = EmptyBatch
    /\ released > 0 /\ released = acquired

\* C27 as stated: the run loop drains the pending batch for a data message only
\* when the message would take the pending bytes above MaxBatchBytes or the
\* pending count has reached MaxBatchSize.
C27_DrainOnlyWhenExceeding ==
    (sendPC = "handoffMsg" /\ size(heldMsg) > 0)
        => \/ outBatch.totalBytes + size(heldMsg) > MaxBatchBytes
           \/ Len(outBatch.msgs) = MaxBatchSize

\* C27 (amended): on receipt of a data message the run loop drains the pending
\* batch first exactly when the message would take the pending bytes to
\* MaxBatchBytes or above, or the pending count has reached MaxBatchSize;
\* otherwise it adds the message to the pending batch. A message that takes
\* the total to exactly MaxBatchBytes causes a drain.
C27_DrainWhenReaching ==
    /\ []((sendPC = "handoffMsg" /\ size(heldMsg) > 0)
            => \/ outBatch.totalBytes + size(heldMsg) >= MaxBatchBytes
               \/ Len(outBatch.msgs) = MaxBatchSize)
    /\ [][(sendPC = "select" /\ procPC = "publish" /\ procPC' = "idle" /\ size(procMsg) > 0)
            => IF \/ msgBatch.totalBytes + size(procMsg) >= MaxBatchBytes
                  \/ Len(msgBatch.msgs) = MaxBatchSize
                  THEN /\ sendPC' = "handoffMsg"
                       /\ outBatch' = msgBatch
                       /\ heldMsg' = procMsg
                       /\ msgBatch'.msgs = <<>>
                  ELSE /\ sendPC' = "select"
                       /\ msgBatch'.msgs = Append(msgBatch.msgs, procMsg)
                       /\ msgBatch'.totalBytes = msgBatch.totalBytes + size(procMsg)
                       /\ outBatch' = outBatch]_vars

\* a pending batch with room for another message was drained for a message that
\* would have filled it to exactly MaxBatchBytes
C27_Witness ==
    /\ sendPC = "handoffMsg"
    /\ size(heldMsg) > 0
    /\ outBatch.msgs # <<>>
    /\ Len(outBatch.msgs) < MaxBatchSize
    /\ outBatch.totalBytes + size(heldMsg) = MaxBatchBytes

\* ============================================================================
\* The batch writer while nothing fails: no cancellation, every bus write succeeds
\* ============================================================================

MaxLiveEvents == 2

\* ProcessWALEvent, for the first MaxLiveEvents events
LiveProcessWALEvent == Len(events) < MaxLiveEvents /\ ProcessWALEvent

\* sendBatch, first half, with WriteMessages succeeding
SenderWriteOk == SenderWrite /\ ~senderErr'

LiveNext ==
    \/ LiveProcessWALEvent
    \/ AcquireGranted
    \/ SendTick
    \/ SendMsgReceived
    \/ BatchHandOff
    \/ SenderWriteOk
    \/ SenderCheckpoint
    \/ SenderRelease

\* the ticker keeps ticking and the goroutines of the run loop and of the
\* sender, and a call waiting for the semaphore, run when they can
LiveSpec ==
    /\ Init
    /\ [][LiveNext]_vars
    /\ WF_vars(AcquireGranted)
    /\ WF_vars(SendTick)
    /\ WF_vars(SendMsgReceived)
    /\ WF_vars(BatchHandOff)
    /\ WF_vars(SenderWriteOk)
    /\ WF_vars(SenderCheckpoint)
    /\ WF_vars(SenderRelease)

\* the payload messages the run loop holds: pending, held back for a hand-off,
\* or drained and not yet received by the sender
withRunLoop ==
    msgBatch.msgs \o (IF heldMsg # 0 /\ size(heldMsg) > 0 THEN <<heldMsg>> ELSE <<>>)
        \o outBatch.msgs

\* the number of places of a sequence that hold id
occurrences(seq, id) == Cardinality({i \in 1..Len(seq) : seq[i] = id})

\* C30 (consumed exactly once): every payload message the run loop received
\* from ProcessWALEvent is, at any time, either with the run loop or in the
\* batches received by the sender, in exactly one of the two and exactly once;
\* and while nothing is cancelled and no bus write fails it is eventually in a
\* batch received by the sender.
C30_ConsumedExactlyOnce ==
    /\ [](\A id \in 1..Len(events) :
            occurrences(withRunLoop \o handed, id)
                = IF size(id) > 0 /\ id \in Range(published) THEN 1 ELSE 0)
    /\ \A id \in 1..MaxEvents :
          (id \in Range(published) /\ size(id) > 0) ~> (id \in Range(handed))

\* two payload messages reached the sender, each in a batch of its own
C30_Witness ==
    /\ Len(handed) = 2
    /\ Len(busWrites) = 2
    /\ \A i \in 1..2 : Len(busWrites[i]) = 1
    /\ withRunLoop = <<>>

\* the positions of the sender goroutine at which it holds a received batch
holdsBatch(pc) == pc \in {"write", "checkpoint", "release"}

\* C31 (one release per batch): the sender takes a batch only when it holds
\* none and keeps it unchanged until it lets go of it; it lets go of it only in
\* the step that releases exactly the batch's totalBytes, after a successful
\* and after a failed write alike; the error of a failed write is reported no
\* earlier than that release; nothing else releases bytes, and the bytes
\* released never exceed the bytes acquired.
C31_OneReleasePerBatch ==
    /\ [](released <= acquired)
    /\ [][(holdsBatch(senderPC) /\ holdsBatch(senderPC')) =>
            (senderBatch' = senderBatch /\ released' = released)]_vars
    /\ [][(holdsBatch(senderPC) /\ ~holdsBatch(senderPC')) =>
            (senderPC = "release" /\ released' = released + senderBatch.totalBytes)]_vars
    /\ [][~holdsBatch(senderPC) => released' = released]_vars
    /\ [][sendErrChan' # sendErrChan /\ Len(sendErrChan') > Len(sendErrChan) =>
            (senderPC = "release" /\ senderErr
                /\ released' = released + senderBatch.totalBytes)]_vars
    /\ [](senderErr /\ senderPC = "done" => senderBatch = EmptyBatch)

\* the sender released the bytes of a batch it wrote and of a batch whose write
\* failed, then reported the failure
C31_Witness ==
    /\ senderErr
    /\ senderPC = "done"
    /\ Len(busWrites) = 1
    /\ Len(handed) = 2
    /\ released = acquired
    /\ released > size(handed[1])

\* C32 (empty tick): a tick that finds nothing pending drains an empty batch,
\* the sender receives it as it is, and while the sender holds an empty batch
\* there is no bus write, no checkpointer call and no write error; no bus write
\* ever has an empty message list and no checkpointer call an empty position.
C32_EmptyTickIsSilent ==
    /\ [](\A i \in 1..Len(busWrites) : busWrites[i] # <<>>)
    /\ [](\A i \in 1..Len(checkpoints) : checkpoints[i].pos # EmptyPos)
    /\ [][(sendPC = "select" /\ sendPC' = "handoffTick" /\ procPC' = procPC
              /\ msgBatch = EmptyBatch) => outBatch' = EmptyBatch]_vars
    /\ [][(senderPC = "recv" /\ senderPC' = "write") => senderBatch' = outBatch]_vars
    /\ [][(holdsBatch(senderPC) /\ senderBatch = EmptyBatch) =>
            (busWrites' = busWrites /\ checkpoints' = checkpoints
                /\ senderErr' = senderErr /\ sendErrChan' = sendErrChan)]_vars

\* the sender went through sendBatch with an empty batch that a tick handed
\* over, after an earlier batch with a message
C32_Witness ==
    /\ senderPC = "release"
    /\ senderBatch = EmptyBatch
    /\ Len(busWrites) = 1
    /\ Len(checkpoints) = 1
    /\ msgBatch = EmptyBatch

\* ============================================================================
\* BatchWriter.Close beside Send and ProcessWALEvent
\* ============================================================================

\* Close(): close(w.msgChan), then the bus writer is closed. A ProcessWALEvent
\* call blocked in `w.msgChan <- kafkaMsg` panics (send on closed channel); its
\* deferred recover turns the panic into the returned error, with the bytes of
\* the message still acquired.
Close ==
    /\ ~closed
    /\ closed' = TRUE
    /\ IF procPC = "publish"
          THEN /\ procPC' = "idle"
               /\ procMsg' = 0
               /\ procRet' = "err"
               /\ UNCHANGED dropped
          ELSE UNCHANGED procVars
    /\ UNCHANGED <<events, cancelled, semaVars, loopVars, senderVars, histVars>>
    /\ UNCHANGED notWriter

\* a ProcessWALEvent call reaches `w.msgChan <- kafkaMsg` after Close: the send
\* panics and the deferred recover returns the error
PublishOnClosed ==
    /\ closed
    /\ procPC = "publish"
    /\ procPC' = "idle"
    /\ procMsg' = 0
    /\ procRet' = "err"
    /\ UNCHANGED <<events, cancelled, closed, dropped, semaVars, loopVars, senderVars, histVars>>
    /\ UNCHANGED notWriter

\* case msg := <-w.msgChan, while msgChan is open
OpenMsgReceived == ~closed /\ SendMsgReceived

\* case msg := <-w.msgChan, once msgChan is closed: the receive yields a nil
\* *msg at once, and the loop calls msg.size(), msg.isKeepAlive() and
\* msgBatch.add(msg) on it. Either a method reads a field through the nil
\* pointer and Send panics, with no recover in Send, which ends the process
\* and every goroutine of it; or the methods tolerate nil: the message counts for 0 bytes,
\* is no keep alive and adds nothing, and the pending batch is drained when
\* it is already full.
NilMsgReceived ==
    /\ closed
    /\ sendPC = "select"
    /\ \/ /\ sendPC' = "panicked"
          /\ procPC' = "crashed"
          /\ senderPC' = "crashed"
          /\ UNCHANGED <<msgBatch, outBatch>>
       \/ /\ IF msgBatch.totalBytes >= MaxBatchBytes \/ Len(msgBatch.msgs) = MaxBatchSize
                THEN /\ outBatch' = drain(msgBatch).out
                     /\ msgBatch' = drain(msgBatch).rest
                     /\ sendPC' = "handoffTick"
                ELSE UNCHANGED <<sendPC, msgBatch, outBatch>>
          /\ UNCHANGED <<procPC, senderPC>>
    /\ UNCHANGED <<events, cancelled, closed, procMsg, procRet, dropped, semaVars, sendRet,
                   heldMsg, batchChanClosed, senderBatch, senderErr, ckptErr, sendErrChan,
                   histVars>>
    /\ UNCHANGED notWriter

CloseNext ==
    \/ ProcessWALEvent
    \/ AcquireGranted
    \/ AcquireCancelled
    \/ Cancel
    \/ Close
    \/ PublishOnClosed
    \/ SendCtxDone
    \/ SendErrReceived
    \/ SendTick
    \/ OpenMsgReceived
    \/ NilMsgReceived
    \/ BatchHandOff
    \/ SenderWrite
    \/ SenderCheckpoint
    \/ SenderRelease
    \/ SenderExit

CloseSpec == Init /\ [][CloseNext]_vars

CloseTypeOK ==
    /\ closed \in BOOLEAN
    /\ procPC \in {"idle", "acquire", "publish", "crashed"}
    /\ sendPC \in {"select", "handoffTick", "handoffMsg", "returned", "panicked"}
    /\ senderPC \in {"recv", "write", "checkpoint", "release", "done", "crashed"}
    /\ sendPC = "panicked" <=> procPC = "crashed"
    /\ sendPC = "panicked" <=> senderPC = "crashed"
    /\ semaHeld \in 0..MaxQueueBytes

\* C33 (Close is safe): once Close has closed msgChan the run loop of Send
\* does not crash and adds no message to the pending batch, and a
\* ProcessWALEvent call that publishes returns an error.
C33_CloseIsSafe ==
    /\ [](sendPC # "panicked")
    /\ [][closed => (Len(msgBatch'.msgs) <= Len(msgBatch.msgs) /\ published' = published)]_vars
    /\ [][(closed' /\ procPC = "publish" /\ procPC' # "publish") => procRet' = "err"]_vars

\* ============================================================================
\* The batch writer with a sender goroutine that runs when it can
\* ============================================================================

ShutdownNext ==
    \/ LiveProcessWALEvent
    \/ AcquireGranted
    \/ AcquireCancelled
    \/ Cancel
    \/ SendCtxDone
    \/ SendErrReceived
    \/ SendTick
    \/ SendMsgReceived
    \/ BatchHandOff
    \/ SenderWrite
    \/ SenderCheckpoint
    \/ SenderRelease
    \/ SenderExit

\* the sender goroutine is scheduled, and WriteMessages and the checkpointer
\* return
ShutdownSpec ==
    /\ Init
    /\ [][ShutdownNext]_vars
    /\ WF_vars(SenderWrite)
    /\ WF_vars(SenderCheckpoint)
    /\ WF_vars(SenderRelease)
    /\ WF_vars(SenderExit)

\* C34 (the sender terminates): once Send has returned, for the cancellation or
\* for a send error, the sender goroutine eventually ends; it reports at most
\* one error, into a channel with room for it, and ends in that step; and after
\* the return of Send it never waits for a batch without being able to end.
C34_SenderTerminates ==
    /\ (sendPC = "returned") ~> (senderPC = "done")
    /\ [](Len(sendErrChan) <= 1)
    /\ [][sendErrChan' # sendErrChan /\ Len(sendErrChan') >= Len(sendErrChan) =>
            (sendErrChan = <<>> /\ senderPC # "done" /\ senderPC' = "done")]_vars
    /\ []((sendPC = "returned" /\ senderPC = "recv") => ENABLED SenderExit)
    /\ [](sendPC = "returned" => batchChanClosed)

\* Send returned the cancellation error while the sender held a batch, and the
\* sender has ended after failing to write it
C34_Witness ==
    /\ sendRet = "ctx"
    /\ senderPC = "done"
    /\ senderErr
    /\ sendErrChan # <<>>
====
